---- MODULE Spec2Model ----
(***************************************************************************)
(* pkg/plumber/types.go: the Duration codec (UnmarshalJSON, MarshalJSON)   *)
(* and DecorationConfig.Validate.                                          *)
(*                                                                         *)
(* A byte string is a sequence of one-character strings.  An int64 or      *)
(* uint64 is a sign and a magnitude, the magnitude a sequence of decimal   *)
(* digits, most significant first, without leading zeros (<<>> is 0), so   *)
(* that the 64-bit limits of the Go code are the real ones.                *)
(* An error is the sequence of the fragments of its message: the fixed     *)
(* texts of the library are single fragments, the bytes taken from the     *)
(* input are one fragment each.  NoError (<<>>) is Go's nil error.         *)
(***************************************************************************)
EXTENDS Integers, Sequences, FiniteSets, TLC

\* ------------------------------------------------------------ characters

DigitChars == <<"0", "1", "2", "3", "4", "5", "6", "7", "8", "9">>

IsDigit(c) == \E i \in DOMAIN DigitChars : DigitChars[i] = c

DigitOf(c) == (CHOOSE i \in DOMAIN DigitChars : DigitChars[i] = c) - 1

\* The micro sign U+00B5 and the Greek mu U+03BC, one token each.
MicroSign == "U+00B5"

GreekMu == "U+03BC"

Front(s) == SubSeq(s, 1, Len(s) - 1)

Last(s) == s[Len(s)]

\* ------------------------------------------------ unsigned integer helpers

\* a without its leading zeros
Norm(a) ==
    LET nz == {i \in 1..Len(a) : a[i] # 0}
    IN  IF nz = {} THEN <<>>
        ELSE SubSeq(a, CHOOSE i \in nz : \A j \in nz : i <= j, Len(a))

Less(a, b) ==
    \/ Len(a) < Len(b)
    \/ /\ Len(a) = Len(b)
       /\ \E i \in 1..Len(a) : a[i] < b[i] /\ \A j \in 1..(i - 1) : a[j] = b[j]

Greater(a, b) == Less(b, a)

\* the digit of a at place i of n places, a right-aligned
Place(a, n, i) == IF i > n - Len(a) THEN a[i - (n - Len(a))] ELSE 0

\* The arithmetic works on limbs, the digits of a number in base 10^4
Radix == 10^4

\* the number of limbs that hold a
LimbsLen(a) == (Len(a) + 3) \div 4

\* a as m limbs, most significant first
Limbs(a, m) ==
    [j \in 1..m |->
        1000 * Place(a, 4 * m, 4 * j - 3) + 100 * Place(a, 4 * m, 4 * j - 2)
            + 10 * Place(a, 4 * m, 4 * j - 1) + Place(a, 4 * m, 4 * j)]

\* a as m limbs, least significant first
LimbsUp(a, m) ==
    [j \in 1..m |->
        1000 * Place(a, 4 * m, 4 * (m - j) + 1)
            + 100 * Place(a, 4 * m, 4 * (m - j) + 2)
            + 10 * Place(a, 4 * m, 4 * (m - j) + 3)
            + Place(a, 4 * m, 4 * (m - j) + 4)]

\* the digits of the limbs l, most significant first
Digits(l) ==
    IF l = <<>> THEN <<>>
    ELSE Norm([i \in 1..(4 * Len(l)) |->
                 (l[(i + 3) \div 4] \div 10^((4 * Len(l) - i) % 4)) % 10])

\* the digits of the limbs l, least significant first
DigitsUp(l) ==
    IF l = <<>> THEN <<>>
    ELSE Norm([i \in 1..(4 * Len(l)) |->
                 (l[Len(l) - (i - 1) \div 4] \div 10^((4 * Len(l) - i) % 4))
                     % 10])

\* a + b + carry for limbs a and b of one length, least significant first,
\* the low half and then the high half: [s |-> the limbs of the sum,
\* c |-> the carry out of them]
RECURSIVE addLimbs(_, _, _)
addLimbs(a, b, carry) ==
    IF Len(a) = 1
    THEN [s |-> <<(a[1] + b[1] + carry) % Radix>>,
          c |-> (a[1] + b[1] + carry) \div Radix]
    ELSE LET lo == addLimbs(SubSeq(a, 1, Len(a) \div 2),
                            SubSeq(b, 1, Len(a) \div 2), carry)
             hi == addLimbs(SubSeq(a, Len(a) \div 2 + 1, Len(a)),
                            SubSeq(b, Len(a) \div 2 + 1, Len(a)), lo.c)
         IN  [s |-> lo.s \o hi.s, c |-> hi.c]

\* the limbs that addLimbs and mulLimbs return, the carry the top limbs
carried(r) == DigitsUp(r.s \o <<r.c % Radix, r.c \div Radix>>)

Add(a, b) ==
    IF a = <<>> THEN b
    ELSE IF b = <<>> THEN a
    ELSE carried(addLimbs(
             LimbsUp(a, LimbsLen(IF Len(a) > Len(b) THEN a ELSE b)),
             LimbsUp(b, LimbsLen(IF Len(a) > Len(b) THEN a ELSE b)), 0))

\* a * 10^n
Shift(a, n) == IF a = <<>> THEN a ELSE a \o [i \in 1..n |-> 0]

\* the digits of a number below 2^31, and the number up to nine digits spell
NatDigits(n) == Norm([i \in 1..10 |-> (n \div 10^(10 - i)) % 10])

NatOf(a) ==
    Place(a, 9, 1) * 10^8 + Place(a, 9, 2) * 10^7 + Place(a, 9, 3) * 10^6
        + Place(a, 9, 4) * 10^5 + Place(a, 9, 5) * 10^4
        + Place(a, 9, 6) * 10^3 + Place(a, 9, 7) * 10^2
        + Place(a, 9, 8) * 10 + Place(a, 9, 9)

\* a * k + carry for limbs a, least significant first, and a k below 10^5,
\* the low half and then the high half: [s |-> the limbs of the product,
\* c |-> the carry out of them]
RECURSIVE mulLimbs(_, _, _)
mulLimbs(a, k, carry) ==
    IF Len(a) = 1
    THEN [s |-> <<(a[1] * k + carry) % Radix>>,
          c |-> (a[1] * k + carry) \div Radix]
    ELSE LET lo == mulLimbs(SubSeq(a, 1, Len(a) \div 2), k, carry)
             hi == mulLimbs(SubSeq(a, Len(a) \div 2 + 1, Len(a)), k, lo.c)
         IN  [s |-> lo.s \o hi.s, c |-> hi.c]

MulSmall(a, k) ==
    IF a = <<>> THEN <<>>
    ELSE carried(mulLimbs(LimbsUp(a, LimbsLen(a)), k, 0))

\* a * b, four digits of b at a time
RECURSIVE Mul(_, _)
Mul(a, b) ==
    IF a = <<>> \/ b = <<>> THEN <<>>
    ELSE IF Len(b) <= 4 THEN MulSmall(a, NatOf(b))
    ELSE Add(Shift(Mul(a, SubSeq(b, 1, Len(b) - 4)), 4),
             MulSmall(a, NatOf(SubSeq(b, Len(b) - 3, Len(b)))))

\* Short division of rem * Radix^Len(a) + a by a k > 0 below 10^5, for
\* limbs a, most significant first, the high half and then the low half:
\* [q |-> the limbs of the quotient, r |-> the remainder]
RECURSIVE divLimbs(_, _, _)
divLimbs(a, k, rem) ==
    IF Len(a) = 1
    THEN [q |-> <<(rem * Radix + a[1]) \div k>>,
          r |-> (rem * Radix + a[1]) % k]
    ELSE LET hi == divLimbs(SubSeq(a, 1, Len(a) \div 2), k, rem)
             lo == divLimbs(SubSeq(a, Len(a) \div 2 + 1, Len(a)), k, hi.r)
         IN  [q |-> hi.q \o lo.q, r |-> lo.r]

\* the digits of the quotient that divLimbs returns
quotient(qr) == [q |-> Digits(qr.q), r |-> qr.r]

\* [q |-> a / k, r |-> a % k]
DivMod(a, k) ==
    IF a = <<>> THEN [q |-> <<>>, r |-> 0]
    ELSE quotient(divLimbs(Limbs(a, LimbsLen(a)), k, 0))

\* the digits of unit before its zeros, as a number
Significant(unit) ==
    Len(Norm([i \in 1..Len(unit) |-> unit[Len(unit) + 1 - i]]))

ToChars(a) == [i \in 1..Len(a) |-> DigitChars[a[i] + 1]]

\* 1<<63 and 1<<64
Two63 == <<9, 2, 2, 3, 3, 7, 2, 0, 3, 6, 8, 5, 4, 7, 7, 5, 8, 0, 8>>

Two64 == <<1, 8, 4, 4, 6, 7, 4, 4, 0, 7, 3, 7, 0, 9, 5, 5, 1, 6, 1, 6>>

\* 1<<63 - 1
MaxInt64 == <<9, 2, 2, 3, 3, 7, 2, 0, 3, 6, 8, 5, 4, 7, 7, 5, 8, 0, 7>>

\* uint64 addition of two values that are each at most 1<<63
AddUint64(a, b) == LET s == Add(a, b) IN IF s = Two64 THEN <<>> ELSE s

\* ------------------------------------------------------- time.Duration

\* A time.Duration: an int64 count of nanoseconds.
Dur(neg, mag) == [neg |-> neg /\ mag # <<>>, mag |-> mag]

ZeroDuration == Dur(FALSE, <<>>)

Nanosecond == <<1>>

Microsecond == <<1, 0, 0, 0>>

Millisecond == <<1, 0, 0, 0, 0, 0, 0>>

Second == <<1, 0, 0, 0, 0, 0, 0, 0, 0, 0>>

\* 60 * Second
Minute == <<6, 0, 0, 0, 0, 0, 0, 0, 0, 0, 0>>

\* 60 * Minute
Hour == <<3, 6, 0, 0, 0, 0, 0, 0, 0, 0, 0, 0, 0>>

NoError == <<>>

\* fmtInt: v in decimal ("0" for 0)
fmtInt(v) == IF v = <<>> THEN <<"0">> ELSE ToChars(v)

\* fmtFrac: the fraction of v/10**prec without its trailing zeros (and
\* without the point when it is 0), and v/10**prec: the loop takes the
\* last prec digits of v and prints from the first that is not 0
fmtFrac(v, prec) ==
    LET n     == Len(v)
        digit(i) == IF i <= n THEN v[n + 1 - i] ELSE 0
        print == {i \in 1..prec : digit(i) # 0}
        first == CHOOSE i \in print : \A j \in print : i <= j
    IN  [txt |-> IF print = {} THEN <<>>
                 ELSE <<".">> \o [k \in 1..(prec + 1 - first) |->
                                     DigitChars[digit(prec + 1 - k) + 1]],
         v   |-> IF n > prec THEN SubSeq(v, 1, n - prec) ELSE <<>>]

\* Duration.String: "72h3m0.5s"; below one second the unit is ns, us or ms
DurationString(d) ==
    LET u == d.mag
        body ==
            IF Less(u, Second)
            THEN IF u = <<>> THEN <<"0", "s">>
                 ELSE LET unit == IF Less(u, Microsecond) THEN <<"n", "s">>
                                  ELSE IF Less(u, Millisecond)
                                       THEN <<MicroSign, "s">>
                                       ELSE <<"m", "s">>
                          prec == IF Less(u, Microsecond) THEN 0
                                  ELSE IF Less(u, Millisecond) THEN 3 ELSE 6
                          fr   == fmtFrac(u, prec)
                      IN  fmtInt(fr.v) \o fr.txt \o unit
            ELSE LET fr   == fmtFrac(u, 9)
                     secs == DivMod(fr.v, 60)
                     mins == DivMod(secs.q, 60)
                     s    == fmtInt(NatDigits(secs.r)) \o fr.txt \o <<"s">>
                     m    == IF secs.q # <<>>
                             THEN fmtInt(NatDigits(mins.r)) \o <<"m">> ELSE <<>>
                     h    == IF secs.q # <<>> /\ mins.q # <<>>
                             THEN fmtInt(mins.q) \o <<"h">> ELSE <<>>
                 IN  h \o m \o s
    IN  IF d.neg THEN <<"-">> \o body ELSE body

\* -------------------------------------------------- time.ParseDuration

\* time.quote: s between double quotes, with " and \ escaped and the bytes
\* of a non-ASCII or control character as \xNN
quoteChar(c) ==
    IF c = "\"" \/ c = "\\" THEN <<"\\", c>>
    ELSE IF c = MicroSign THEN <<"\\", "x", "c", "2", "\\", "x", "b", "5">>
    ELSE IF c = GreekMu THEN <<"\\", "x", "c", "e", "\\", "x", "b", "c">>
    ELSE IF c = "\t" THEN <<"\\", "x", "0", "9">>
    ELSE IF c = "\n" THEN <<"\\", "x", "0", "a">>
    ELSE IF c = "\r" THEN <<"\\", "x", "0", "d">>
    ELSE <<c>>

RECURSIVE quoteBody(_)
quoteBody(s) == IF s = <<>> THEN <<>> ELSE quoteChar(s[1]) \o quoteBody(Tail(s))

quote(s) == <<"\"">> \o quoteBody(s) \o <<"\"">>

unitMap ==
    (<<"n", "s">> :> Nanosecond) @@ (<<"u", "s">> :> Microsecond) @@
    (<<MicroSign, "s">> :> Microsecond) @@ (<<GreekMu, "s">> :> Microsecond) @@
    (<<"m", "s">> :> Millisecond) @@ (<<"s">> :> Second) @@
    (<<"m">> :> Minute) @@ (<<"h">> :> Hour)

\* 1<<63/10, (1<<63-1)/10 and 1<<63/unit, the overflow limits of the parser
Two63Div10 == DivMod(Two63, 10).q

MaxInt64Div10 == DivMod(MaxInt64, 10).q

\* a / unit, unit being a number below 2^27 and then zeros
DivUnit(a, unit) ==
    DivMod(SubSeq(a, 1, Len(a) - (Len(unit) - Significant(unit))),
           NatOf(SubSeq(unit, 1, Significant(unit)))).q

unitLimit == [u \in DOMAIN unitMap |-> DivUnit(Two63, unitMap[u])]

\* the digits that start s, and the number its first i digits spell
digitsLen(s) ==
    LET stop == {i \in 1..Len(s) : ~IsDigit(s[i])}
    IN  IF stop = {} THEN Len(s)
        ELSE (CHOOSE i \in stop : \A j \in stop : i <= j) - 1

prefixValue(s, i) == Norm([k \in 1..i |-> DigitOf(s[k])])

\* leadingInt: the leading [0-9]* of s as a uint64 x; err when x passes
\* 1<<63/10 before a digit is added or 1<<63 after it
leadingInt(s) ==
    LET n == digitsLen(s)
    IN  IF \E i \in 1..n : \/ Greater(prefixValue(s, i - 1), Two63Div10)
                           \/ Greater(prefixValue(s, i), Two63)
        THEN [x |-> <<>>, rem |-> <<>>, err |-> TRUE]
        ELSE [x |-> prefixValue(s, n), rem |-> SubSeq(s, n + 1, Len(s)),
              err |-> FALSE]

\* leadingFraction: the leading [0-9]* of s as x/scale; from the first digit
\* that would pass the uint64 range on, the digits are consumed and ignored
leadingFraction(s) ==
    LET n    == digitsLen(s)
        over == {i \in 1..n : \/ Greater(prefixValue(s, i - 1), MaxInt64Div10)
                              \/ Greater(prefixValue(s, i), Two63)}
        used == IF over = {} THEN n
                ELSE (CHOOSE i \in over : \A j \in over : i <= j) - 1
    IN  [x |-> prefixValue(s, used), scale |-> <<1>> \o [k \in 1..used |-> 0],
         rem |-> SubSeq(s, n + 1, Len(s))]

\* ------------------------------------------------------------ float64

\* 2^n
RECURSIVE Pow2(_)
Pow2(n) == IF n <= 16 THEN NatDigits(2^n) ELSE MulSmall(Pow2(n - 16), 2^16)

\* the number of bits of a, sixteen at a time
RECURSIVE bitLen(_)
bitLen(a) ==
    IF Len(a) <= 9
    THEN CHOOSE n \in 0..30 :
            NatOf(a) < 2^n /\ (n = 0 \/ NatOf(a) >= 2^(n - 1))
    ELSE 16 + bitLen(DivMod(a, 2^16).q)

\* a >> n, sixteen bits at a time: [q |-> a / 2^n, sticky |-> whether a
\* bit of a % 2^n is set, or sticky was]
RECURSIVE shiftRight(_, _, _)

shifted(qr, n, sticky) == shiftRight(qr.q, n, sticky \/ qr.r # 0)

shiftRight(a, n, sticky) ==
    IF n = 0 THEN [q |-> a, sticky |-> sticky]
    ELSE shifted(DivMod(a, 2^(IF n > 16 THEN 16 ELSE n)),
                 IF n > 16 THEN n - 16 ELSE 0, sticky)

\* A float64 above zero is m * 2^e with m an integer of at most 53 bits.
\* roundFloat64(a, sticky) is the float64 nearest to a (to a and a bit
\* more, when sticky), ties to the even mantissa: a of bits bits is shifted
\* to 54 bits (sh), and the last of them (half.r) rounds the other 53
roundHalf(half, sticky, e) ==
    [m |-> IF half.r = 1 /\ (sticky \/ Last(half.q) % 2 = 1)
           THEN Add(half.q, <<1>>) ELSE half.q,
     e |-> e]

roundShifted(sh, e) == roundHalf(DivMod(sh.q, 2), sh.sticky, e)

roundBits(a, sticky, bits) ==
    IF bits <= 53 THEN [m |-> a, e |-> 0]
    ELSE roundShifted(shiftRight(a, bits - 54, sticky), bits - 53)

roundFloat64(a, sticky) == roundBits(a, sticky, bitLen(a))

\* p * 2^e
scaled(p, e) == [m |-> p.m, e |-> p.e + e]

\* x * y
mulFloat64(x, y) == scaled(roundFloat64(Mul(x.m, y.m), FALSE), x.e + y.e)

\* 1<<128
Two128 ==
    <<3, 4, 0, 2, 8, 2, 3, 6, 6, 9, 2, 0, 9, 3, 8, 4, 6, 3, 4, 6, 3, 3, 7, 4, 6, 0, 7, 4, 3, 1, 7, 6, 8, 2, 1, 1, 4, 5, 6>>

\* the float64 nearest to n / 10^k
dropDigits(n, k) ==
    roundFloat64(SubSeq(n, 1, Len(n) - k),
                 \E i \in (Len(n) - k + 1)..Len(n) : n[i] # 0)

\* float64(unit) / scale for scale = 10^k: the float64 nearest to
\* unit * 2^128 / 10^k, over 2^128
divFloat64(unit, k) ==
    scaled(dropDigits(
               Shift(MulSmall(Two128,
                              NatOf(SubSeq(unit, 1, Significant(unit)))),
                     Len(unit) - Significant(unit)), k),
           0 - 128)

\* uint64(x): x without its fraction
truncFloat64(x) ==
    IF x.e >= 0 THEN Mul(Pow2(x.e), x.m)
    ELSE shiftRight(x.m, 0 - x.e, FALSE).q

\* ------------------------------------- time.ParseDuration, the loop

\* float64(unit) / scale for the units of the unitMap and the scales that
\* leadingFraction returns, 10^0 to 10^19
unitOverScale ==
    [unit \in {unitMap[u] : u \in DOMAIN unitMap}, k \in 0..19 |->
        divFloat64(unit, k)]

\* uint64(float64(f) * (float64(unit) / scale)): the whole nanoseconds of
\* the fraction f/scale of a unit, scale a power of ten
fractionOf(f, unit, scale) ==
    truncFloat64(mulFloat64(roundFloat64(f, FALSE),
                            unitOverScale[unit, Len(scale) - 1]))

\* the length of the unit name that starts s: up to the next [0-9.]
unitLen(s) ==
    LET stop == {i \in 1..Len(s) : s[i] = "." \/ IsDigit(s[i])}
    IN  IF stop = {} THEN Len(s)
        ELSE (CHOOSE i \in stop : \A j \in stop : i <= j) - 1

\* an error that leaves the duration out
invalidDurationBare(orig) == <<"time: invalid duration">>

invalidDuration(orig) == <<"time: invalid duration ">> \o quote(orig)

\* One pass of the loop of ParseDuration over ([0-9]*(\.[0-9]*)?[a-z]+)+,
\* with s the text still to read and d the nanoseconds read so far: the
\* integer, the fraction, the unit, and the sum
RECURSIVE parseLoop(_, _, _)

\* d += v, the new d over 1<<63 is an overflow
addToTotal(orig, rest, d) ==
    IF Greater(d, Two63) THEN [d |-> <<>>, err |-> invalidDuration(orig)]
    ELSE parseLoop(orig, rest, d)

\* v with the fraction added, over 1<<63 is an overflow
addComponent(orig, rest, d, v) ==
    IF Greater(v, Two63) THEN [d |-> <<>>, err |-> invalidDuration(orig)]
    ELSE addToTotal(orig, rest, AddUint64(d, v))

\* the unit u of the component x.f/scale, and v = x * unit
consumeUnit(orig, rest, d, x, f, scale, u) ==
    CASE u = <<>> ->
            [d |-> <<>>,
             err |-> <<"time: missing unit in duration ">> \o quote(orig)]
      [] u \notin DOMAIN unitMap ->
            [d |-> <<>>,
             err |-> <<"time: unknown unit ">> \o quote(u)
                       \o <<" in duration ">> \o quote(orig)]
      [] Greater(x, unitLimit[u]) ->
            [d |-> <<>>, err |-> invalidDuration(orig)]
      [] f = <<>> -> addComponent(orig, rest, d, Mul(x, unitMap[u]))
      [] OTHER ->
            addComponent(orig, rest, d,
                         Add(Mul(x, unitMap[u]),
                             fractionOf(f, unitMap[u], scale)))

\* after the integer x: pre says it had digits, frac is what follows it
consumeFraction(orig, d, x, pre, frac, dot) ==
    LET lf == IF dot THEN leadingFraction(Tail(frac))
              ELSE [x |-> <<>>, scale |-> <<1>>, rem |-> frac]
    IN  IF ~pre /\ ~(dot /\ Len(lf.rem) # Len(frac) - 1)
        THEN [d |-> <<>>, err |-> invalidDuration(orig)]
        ELSE consumeUnit(orig,
                         SubSeq(lf.rem, unitLen(lf.rem) + 1, Len(lf.rem)),
                         d, x, lf.x, lf.scale,
                         SubSeq(lf.rem, 1, unitLen(lf.rem)))

consumeInt(orig, s, d, li) ==
    IF li.err THEN [d |-> <<>>, err |-> invalidDuration(orig)]
    ELSE consumeFraction(orig, d, li.x, Len(li.rem) # Len(s), li.rem,
                         li.rem # <<>> /\ li.rem[1] = ".")

parseLoop(orig, s, d) ==
    CASE s = <<>> -> [d |-> d, err |-> NoError]
      [] ~(s[1] = "." \/ IsDigit(s[1])) ->
            [d |-> <<>>, err |-> invalidDuration(orig)]
      [] OTHER -> consumeInt(orig, s, d, leadingInt(s))

\* the sum r of the components with the sign dropped
signedDurationAbs(orig, neg, r) ==
    CASE r.err # NoError -> [d |-> ZeroDuration, err |-> r.err]
      [] Greater(r.d, MaxInt64) ->
            [d |-> ZeroDuration, err |-> invalidDuration(orig)]
      [] OTHER -> [d |-> Dur(FALSE, r.d), err |-> NoError]

\* the end of ParseDuration: the sign put on the sum r of the components
signedDuration(orig, neg, r) ==
    CASE r.err # NoError -> [d |-> ZeroDuration, err |-> r.err]
      [] neg -> [d |-> Dur(TRUE, r.d), err |-> NoError]
      [] Greater(r.d, MaxInt64) ->
            [d |-> ZeroDuration, err |-> invalidDuration(orig)]
      [] OTHER -> [d |-> Dur(FALSE, r.d), err |-> NoError]

\* time.ParseDuration: [d |-> the Duration, err |-> the error]
ParseDuration(str) ==
    LET signed == str # <<>> /\ (str[1] = "-" \/ str[1] = "+")
        s      == IF signed THEN Tail(str) ELSE str
    IN  CASE s = <<"0">> -> [d |-> ZeroDuration, err |-> NoError]
          [] s = <<>> -> [d |-> ZeroDuration, err |-> invalidDuration(str)]
          [] OTHER -> signedDuration(str, signed /\ str[1] = "-",
                                     parseLoop(str, s, <<>>))

\* ------------------------------------------------ encoding/json scanner

isSpace(c) == c \in {" ", "\t", "\r", "\n"}

\* a byte below 0x20
IsControl(c) == c \in {"\t", "\r", "\n"}

IsHex(c) == IsDigit(c) \/ c \in {"a", "b", "c", "d", "e", "f",
                                   "A", "B", "C", "D", "E", "F"}

\* scanner.reset: step, parseState, endTop and err of the scanner
scanReset == [step |-> "BeginValue", parseState |-> <<>>, endTop |-> FALSE,
              err |-> NoError]

\* scanner.error: "invalid character 'c' <context>"
scanError(s, c, context) ==
    [s EXCEPT !.step = "Error",
              !.err = <<"invalid character '">>
                      \o (IF c = "'" THEN <<"\\", "'">> ELSE <<c>>)
                      \o <<"' ", context>>]

stateEndTop(s, c) ==
    IF ~isSpace(c) THEN scanError(s, c, "after top-level value") ELSE s

popParseState(s) ==
    IF Len(s.parseState) = 1
    THEN [s EXCEPT !.parseState = <<>>, !.step = "EndTop", !.endTop = TRUE]
    ELSE [s EXCEPT !.parseState = Front(s.parseState), !.step = "EndValue"]

setTop(s, ps) ==
    [s EXCEPT !.parseState = Append(Front(s.parseState), ps)]

stateEndValue(s, c) ==
    LET ps == Last(s.parseState)
    IN  CASE s.parseState = <<>> ->
                stateEndTop([s EXCEPT !.step = "EndTop", !.endTop = TRUE], c)
          [] isSpace(c) -> [s EXCEPT !.step = "EndValue"]
          [] ps = "parseObjectKey" /\ c = ":" ->
                [setTop(s, "parseObjectValue") EXCEPT !.step = "BeginValue"]
          [] ps = "parseObjectKey" -> scanError(s, c, "after object key")
          [] ps = "parseObjectValue" /\ c = "," ->
                [setTop(s, "parseObjectKey") EXCEPT !.step = "BeginString"]
          [] ps = "parseObjectValue" /\ c = "}" -> popParseState(s)
          [] ps = "parseObjectValue" ->
                scanError(s, c, "after object key:value pair")
          [] c = "," -> [s EXCEPT !.step = "BeginValue"]
          [] c = "]" -> popParseState(s)
          [] OTHER -> scanError(s, c, "after array element")

stateBeginValue(s, c) ==
    CASE isSpace(c) -> s
      [] c = "{" ->
            [s EXCEPT !.step = "BeginStringOrEmpty",
                      !.parseState = Append(s.parseState, "parseObjectKey")]
      [] c = "[" ->
            [s EXCEPT !.step = "BeginValueOrEmpty",
                      !.parseState = Append(s.parseState, "parseArrayValue")]
      [] c = "\"" -> [s EXCEPT !.step = "InString"]
      [] c = "-" -> [s EXCEPT !.step = "Neg"]
      [] c = "0" -> [s EXCEPT !.step = "0"]
      [] c = "t" -> [s EXCEPT !.step = "T"]
      [] c = "f" -> [s EXCEPT !.step = "F"]
      [] c = "n" -> [s EXCEPT !.step = "N"]
      [] IsDigit(c) -> [s EXCEPT !.step = "1"]
      [] OTHER -> scanError(s, c, "looking for beginning of value")

stateBeginString(s, c) ==
    IF isSpace(c) THEN s
    ELSE IF c = "\"" THEN [s EXCEPT !.step = "InString"]
    ELSE scanError(s, c, "looking for beginning of object key string")

state0(s, c) ==
    IF c = "." THEN [s EXCEPT !.step = "Dot"]
    ELSE IF c = "e" \/ c = "E" THEN [s EXCEPT !.step = "E"]
    ELSE stateEndValue(s, c)

stateESign(s, c) ==
    IF IsDigit(c) THEN [s EXCEPT !.step = "E0"]
    ELSE scanError(s, c, "in exponent of numeric literal")

\* stateT ... stateNul: the literal read so far, the byte that continues
\* it, and the state after that byte
literalStates ==
    [T   |-> <<"r", "Tr", "in literal true (expecting 'r')">>,
     Tr  |-> <<"u", "Tru", "in literal true (expecting 'u')">>,
     Tru |-> <<"e", "EndValue", "in literal true (expecting 'e')">>,
     F   |-> <<"a", "Fa", "in literal false (expecting 'a')">>,
     Fa  |-> <<"l", "Fal", "in literal false (expecting 'l')">>,
     Fal |-> <<"s", "Fals", "in literal false (expecting 's')">>,
     Fals |-> <<"e", "EndValue", "in literal false (expecting 'e')">>,
     N   |-> <<"u", "Nu", "in literal null (expecting 'u')">>,
     Nu  |-> <<"l", "Nul", "in literal null (expecting 'l')">>,
     Nul |-> <<"l", "EndValue", "in literal null (expecting 'l')">>]

stateBeginValueOrEmpty(s, c) ==
    CASE isSpace(c) -> s
      [] c = "]" -> stateEndValue(s, c)
      [] OTHER -> stateBeginValue(s, c)

stateBeginStringOrEmpty(s, c) ==
    CASE isSpace(c) -> s
      [] c = "}" -> stateEndValue(setTop(s, "parseObjectValue"), c)
      [] OTHER -> stateBeginString(s, c)

stateInString(s, c) ==
    CASE c = "\"" -> [s EXCEPT !.step = "EndValue"]
      [] c = "\\" -> [s EXCEPT !.step = "InStringEsc"]
      [] IsControl(c) -> scanError(s, c, "in string literal")
      [] OTHER -> s

stateInStringEsc(s, c) ==
    CASE c \in {"b", "f", "n", "r", "t", "\\", "/", "\""} ->
            [s EXCEPT !.step = "InString"]
      [] c = "u" -> [s EXCEPT !.step = "InStringEscU"]
      [] OTHER -> scanError(s, c, "in string escape code")

\* stateInStringEscU ... stateInStringEscU123
stateInStringEscU(s, c, next) ==
    IF IsHex(c) THEN [s EXCEPT !.step = next]
    ELSE scanError(s, c, "in \\u hexadecimal character escape")

stateNeg(s, c) ==
    CASE c = "0" -> [s EXCEPT !.step = "0"]
      [] IsDigit(c) -> [s EXCEPT !.step = "1"]
      [] OTHER -> scanError(s, c, "in numeric literal")

state1(s, c) == IF IsDigit(c) THEN s ELSE state0(s, c)

stateDot(s, c) ==
    IF IsDigit(c) THEN [s EXCEPT !.step = "Dot0"]
    ELSE scanError(s, c, "after decimal point in numeric literal")

stateDot0(s, c) ==
    CASE IsDigit(c) -> s
      [] c = "e" \/ c = "E" -> [s EXCEPT !.step = "E"]
      [] OTHER -> stateEndValue(s, c)

stateE(s, c) ==
    IF c = "+" \/ c = "-" THEN [s EXCEPT !.step = "ESign"]
    ELSE stateESign(s, c)

stateE0(s, c) == IF IsDigit(c) THEN s ELSE stateEndValue(s, c)

stateLiteral(s, c) ==
    LET lit == literalStates[s.step]
    IN  IF c = lit[1] THEN [s EXCEPT !.step = lit[2]]
        ELSE scanError(s, c, lit[3])

\* scanner.step: one byte through the state function the scanner is in
scanStep(s, c) ==
    LET st == s.step
    IN  CASE st = "Error" -> s
          [] st = "BeginValue" -> stateBeginValue(s, c)
          [] st = "BeginValueOrEmpty" -> stateBeginValueOrEmpty(s, c)
          [] st = "BeginStringOrEmpty" -> stateBeginStringOrEmpty(s, c)
          [] st = "BeginString" -> stateBeginString(s, c)
          [] st = "EndValue" -> stateEndValue(s, c)
          [] st = "EndTop" -> stateEndTop(s, c)
          [] st = "InString" -> stateInString(s, c)
          [] st = "InStringEsc" -> stateInStringEsc(s, c)
          [] st = "InStringEscU" -> stateInStringEscU(s, c, "InStringEscU1")
          [] st = "InStringEscU1" -> stateInStringEscU(s, c, "InStringEscU12")
          [] st = "InStringEscU12" -> stateInStringEscU(s, c, "InStringEscU123")
          [] st = "InStringEscU123" -> stateInStringEscU(s, c, "InString")
          [] st = "Neg" -> stateNeg(s, c)
          [] st = "1" -> state1(s, c)
          [] st = "0" -> state0(s, c)
          [] st = "Dot" -> stateDot(s, c)
          [] st = "Dot0" -> stateDot0(s, c)
          [] st = "E" -> stateE(s, c)
          [] st = "ESign" -> stateESign(s, c)
          [] st = "E0" -> stateE0(s, c)
          [] OTHER -> stateLiteral(s, c)

\* scanner.eof: a space ends a number or a literal; what is still open
\* after it is "unexpected end of JSON input"
scanEOF(s) ==
    IF s.err # NoError THEN s.err
    ELSE IF s.endTop THEN NoError
    ELSE LET s1 == scanStep(s, " ")
         IN  IF s1.endTop THEN NoError
             ELSE IF s1.err # NoError THEN s1.err
             ELSE <<"unexpected end of JSON input">>

\* checkValid: the SyntaxError of data, NoError for valid JSON
RECURSIVE checkValidFrom(_, _, _)
checkValidFrom(data, i, s) ==
    IF s.err # NoError THEN s.err
    ELSE IF i > Len(data) THEN scanEOF(s)
    ELSE checkValidFrom(data, i + 1, scanStep(s, data[i]))

checkValid(data) == checkValidFrom(data, 1, scanReset)

\* ------------------------------------------------ encoding/json decoder

\* decodeState.value on valid JSON: the bytes of the top-level value,
\* without the white space around it
literalItem(data) ==
    LET ink == {i \in 1..Len(data) : ~isSpace(data[i])}
    IN  SubSeq(data, CHOOSE i \in ink : \A j \in ink : i <= j,
                     CHOOSE i \in ink : \A j \in ink : i >= j)


\* the runes of the \uXXXX escapes that the inputs below use
runeTable ==
    (<<"0", "0", "3", "5">> :> "5") @@ (<<"0", "0", "6", "d">> :> "m") @@
    (<<"0", "0", "6", "D">> :> "m") @@ (<<"0", "0", "b", "5">> :> MicroSign) @@
    (<<"0", "0", "B", "5">> :> MicroSign)

\* unquote: the string a JSON string literal stands for
RECURSIVE unquoteBody(_)
unquoteBody(s) ==
    IF s = <<>> THEN <<>>
    ELSE IF s[1] # "\\" THEN <<s[1]>> \o unquoteBody(Tail(s))
    ELSE IF s[2] = "u"
    THEN LET hex == SubSeq(s, 3, 6)
         IN  <<IF hex \in DOMAIN runeTable THEN runeTable[hex] ELSE "U+FFFD">>
             \o unquoteBody(SubSeq(s, 7, Len(s)))
    ELSE <<IF s[2] = "n" THEN "\n"
           ELSE IF s[2] = "t" THEN "\t"
           ELSE IF s[2] = "r" THEN "\r"
           ELSE IF s[2] = "b" THEN "U+0008"
           ELSE IF s[2] = "f" THEN "U+000C"
           ELSE s[2]>> \o unquoteBody(SubSeq(s, 3, Len(s)))

unquote(item) == unquoteBody(SubSeq(item, 2, Len(item) - 1))

\* UnmarshalTypeError.Error
UnmarshalTypeError(value, type) ==
    <<"json: cannot unmarshal ">> \o value
        \o <<" into Go value of type ", type>>

\* the JSON kind of a value, from its first byte
jsonKind(item) ==
    IF item[1] = "{" THEN "object"
    ELSE IF item[1] = "[" THEN "array"
    ELSE IF item[1] = "n" THEN "null"
    ELSE IF item[1] = "t" \/ item[1] = "f" THEN "bool"
    ELSE IF item[1] = "\"" THEN "string"
    ELSE "number"

\* ParseInt with every integer of nineteen digits out of range
ParseIntCutoff(s) ==
    LET signed == s # <<>> /\ (s[1] = "+" \/ s[1] = "-")
        neg    == signed /\ s[1] = "-"
        digits == IF signed THEN Tail(s) ELSE s
        un     == Norm([i \in 1..Len(digits) |-> DigitOf(digits[i])])
    IN  IF digits = <<>> \/ \E i \in 1..Len(digits) : ~IsDigit(digits[i])
        THEN [n |-> ZeroDuration, err |-> TRUE]
        ELSE IF ~neg /\ Len(un) >= 19
        THEN [n |-> Dur(FALSE, MaxInt64), err |-> TRUE]
        ELSE IF neg /\ Greater(un, Two63)
        THEN [n |-> Dur(TRUE, Two63), err |-> TRUE]
        ELSE [n |-> Dur(neg, un), err |-> FALSE]

\* strconv.ParseInt(s, 10, 64): [n |-> the int64, err |-> failed]
ParseInt(s) ==
    LET signed == s # <<>> /\ (s[1] = "+" \/ s[1] = "-")
        neg    == signed /\ s[1] = "-"
        digits == IF signed THEN Tail(s) ELSE s
        un     == Norm([i \in 1..Len(digits) |-> DigitOf(digits[i])])
    IN  IF digits = <<>> \/ \E i \in 1..Len(digits) : ~IsDigit(digits[i])
        THEN [n |-> ZeroDuration, err |-> TRUE]
        ELSE IF ~neg /\ ~Less(un, Two63)
        THEN [n |-> Dur(FALSE, MaxInt64), err |-> TRUE]
        ELSE IF neg /\ Greater(un, Two63)
        THEN [n |-> Dur(TRUE, Two63), err |-> TRUE]
        ELSE [n |-> Dur(neg, un), err |-> FALSE]

\* json.Unmarshal(data, &v) for v a time.Duration (an int64) holding v0:
\* [v |-> v after the call, err |-> the error]
jsonUnmarshalInt64(data, v0) ==
    LET syntax == checkValid(data)
        item   == literalItem(data)
        kind   == jsonKind(item)
        n      == ParseInt(item)
    IN  IF syntax # NoError THEN [v |-> v0, err |-> syntax]
        ELSE IF kind = "null" THEN [v |-> v0, err |-> NoError]
        ELSE IF kind = "number"
        THEN IF n.err
             THEN [v |-> v0,
                   err |-> UnmarshalTypeError(<<"number ">> \o item,
                                              "time.Duration")]
             ELSE [v |-> n.n, err |-> NoError]
        ELSE [v |-> v0, err |-> UnmarshalTypeError(<<kind>>, "time.Duration")]

\* json.Unmarshal(data, &str) for str a string holding str0
jsonUnmarshalString(data, str0) ==
    LET syntax == checkValid(data)
        item   == literalItem(data)
        kind   == jsonKind(item)
    IN  IF syntax # NoError THEN [v |-> str0, err |-> syntax]
        ELSE IF kind = "null" THEN [v |-> str0, err |-> NoError]
        ELSE IF kind = "string" THEN [v |-> unquote(item), err |-> NoError]
        ELSE [v |-> str0, err |-> UnmarshalTypeError(<<kind>>, "string")]

\* json.Marshal of a string: the string literal, with HTML escaping
jsonEscape(c) ==
    IF c = "\"" \/ c = "\\" THEN <<"\\", c>>
    ELSE IF c = "\n" THEN <<"\\", "n">>
    ELSE IF c = "\r" THEN <<"\\", "r">>
    ELSE IF c = "\t" THEN <<"\\", "t">>
    ELSE IF c = "<" THEN <<"\\", "u", "0", "0", "3", "c">>
    ELSE IF c = ">" THEN <<"\\", "u", "0", "0", "3", "e">>
    ELSE IF c = "&" THEN <<"\\", "u", "0", "0", "2", "6">>
    ELSE <<c>>

RECURSIVE jsonEscapeAll(_)
jsonEscapeAll(s) ==
    IF s = <<>> THEN <<>> ELSE jsonEscape(s[1]) \o jsonEscapeAll(Tail(s))

\* the escaped string without its quotes
jsonMarshalBare(s) == jsonEscapeAll(s)

jsonMarshalString(s) == <<"\"">> \o jsonEscapeAll(s) \o <<"\"">>

\* ------------------------------------------------------ pkg/plumber

\* UnmarshalJSON with d.Duration assigned before the error of
\* ParseDuration is looked at
UnmarshalAssignFirst(d0, b) ==
    LET asInt == jsonUnmarshalInt64(b, d0)
        asStr == jsonUnmarshalString(b, <<>>)
        pd    == ParseDuration(asStr.v)
    IN  IF asInt.err = NoError THEN [d |-> asInt.v, err |-> NoError]
        ELSE IF asStr.err # NoError THEN [d |-> asInt.v, err |-> asStr.err]
        ELSE [d |-> pd.d, err |-> pd.err]

\* Duration.UnmarshalJSON on a receiver holding d0:
\* [d |-> d.Duration after the call, err |-> the error returned]
DurationUnmarshalJSON(d0, b) ==
    LET asInt == jsonUnmarshalInt64(b, d0)
        asStr == jsonUnmarshalString(b, <<>>)
        pd    == ParseDuration(asStr.v)
    IN  IF asInt.err = NoError THEN [d |-> asInt.v, err |-> NoError]
        ELSE IF asStr.err # NoError THEN [d |-> asInt.v, err |-> asStr.err]
        ELSE IF pd.err # NoError THEN [d |-> asInt.v, err |-> pd.err]
        ELSE [d |-> pd.d, err |-> NoError]

\* MarshalJSON writing the integer of nanoseconds
MarshalNanoseconds(d0) ==
    [b |-> (IF d0.neg THEN <<"-">> ELSE <<>>)
               \o (IF d0.mag = <<>> THEN <<"0">> ELSE ToChars(d0.mag)),
     err |-> NoError, d |-> d0]

\* Duration.MarshalJSON: [b |-> the bytes, err |-> the error returned,
\* d |-> d.Duration after the call]
DurationMarshalJSON(d0) ==
    [b |-> jsonMarshalString(DurationString(d0)), err |-> NoError, d |-> d0]

\* Validate refusing a grace period that is not below the timeout
ValidateGracePeriod(c) ==
    IF c.Timeout # <<>> /\ c.GracePeriod # <<>>
         /\ ~Less(c.GracePeriod[1].Duration.mag, c.Timeout[1].Duration.mag)
    THEN [err |-> <<"grace period must be less than timeout">>, dc |-> c]
    ELSE [err |-> NoError, dc |-> c]

\* DecorationConfig.Validate: [err |-> the error returned,
\* dc |-> the config after the call]
DecorationConfigValidate(c) == [err |-> NoError, dc |-> c]

\* ------------------------------------------------------------ inputs

\* JSON integers n with 0 <= n <= 1<<63 - 1
NonNegativeIntegers ==
    { <<"0">>,
      <<"1">>,
      <<"9", "9", "9">>,
      <<"1", "5", "0", "0">>,
      <<"3", "0", "0", "0", "0", "0", "0", "0", "0">>,
      <<"1", "0", "0", "0", "0", "0", "0", "0", "0", "0">>,
      <<"5", "4", "0", "0", "0", "0", "0", "0", "0", "0", "0", "0", "0">>,
      <<"9", "9", "0", "0", "0", "0", "0", "0", "0", "0", "0", "0", "0">>,
      <<"9", "2", "2", "3", "3", "7", "2", "0", "3", "6", "8", "5", "4", "7", "7", "5", "8", "0", "7">> }

\* JSON integers n with -(1<<63) <= n < 0
NegativeIntegers ==
    { <<"-", "1">>,
      <<"-", "1", "5", "0", "0">>,
      <<"-", "3", "0", "0", "0", "0", "0", "0", "0", "0", "0", "0", "0">>,
      <<"-", "9", "2", "2", "3", "3", "7", "2", "0", "3", "6", "8", "5", "4", "7", "7", "5", "8", "0", "8">> }

\* a negative zero, and an integer between white space
OtherIntegers ==
    { <<"-", "0">>,
      <<" ", "6", "0", "0", "0", "0", "0", "0", "0", "0", "0", "0", "\n">> }

\* JSON integers at and beyond 1<<63
TooLargeIntegers ==
    { <<"9", "2", "2", "3", "3", "7", "2", "0", "3", "6", "8", "5", "4", "7", "7", "5", "8", "0", "8">>,
      <<"1", "8", "4", "4", "6", "7", "4", "4", "0", "7", "3", "7", "0", "9", "5", "5", "1", "6", "1", "6">>,
      <<"9", "9", "9", "9", "9", "9", "9", "9", "9", "9", "9", "9", "9", "9", "9", "9", "9", "9", "9", "9">> }

\* a JSON integer below -(1<<63)
TooSmallIntegers ==
    { <<"-", "9", "2", "2", "3", "3", "7", "2", "0", "3", "6", "8", "5", "4", "7", "7", "5", "8", "0", "9">> }

\* JSON strings holding a duration expression that is zero or positive
DurationStrings ==
    { <<"\"", "0", "s", "\"">>,
      <<"\"", "0", "\"">>,
      <<"\"", "3", "0", "0", "m", "s", "\"">>,
      <<"\"", "1", "s", "\"">>,
      <<"\"", "1", ".", "5", "h", "\"">>,
      <<"\"", "2", "h", "4", "5", "m", "\"">>,
      <<"\"", "1", "h", "3", "0", "m", "\"">>,
      <<"\"", ".", "5", "s", "\"">>,
      <<"\"", "+", "1", "m", "\"">>,
      <<"\"", "1", ".", "5", MicroSign, "s", "\"">>,
      <<"\"", "1", ".", "5", "u", "s", "\"">>,
      <<"\"", "1", "\\", "u", "0", "0", "b", "5", "s", "\"">>,
      <<"\"", "2", "5", "6", "2", "0", "4", "7", "h", "4", "7", "m", "1", "6", ".", "8", "5", "4", "7", "7", "5", "8", "0", "7", "s", "\"">>,
      <<" ", "\"", "9", "0", "m", "\"">> }

\* JSON strings holding a negative duration expression
NegativeDurationStrings ==
    { <<"\"", "-", "5", "m", "\"">>,
      <<"\"", "-", "1", "n", "s", "\"">>,
      <<"\"", "-", "1", ".", "5", MicroSign, "s", "\"">>,
      <<"\"", "-", "2", "5", "6", "2", "0", "4", "7", "h", "4", "7", "m", "1", "6", ".", "8", "5", "4", "7", "7", "5", "8", "0", "8", "s", "\"">> }

\* JSON strings holding a duration expression whose fraction is written
\* with trailing zeros: 0.00000000005 minutes, which is 3 nanoseconds
PaddedDurationStrings ==
    { <<"\"", "0", ".", "0", "0", "0", "0", "0", "0", "0", "0", "0", "0", "5", "0", "0", "0", "m", "\"">> }

\* JSON strings holding a duration expression beyond the int64 range
OutOfRangeDurationStrings ==
    { <<"\"", "2", "5", "6", "2", "0", "4", "8", "h", "\"">>,
      <<"\"", "9", "2", "2", "3", "3", "7", "2", "0", "3", "6", "8", "5", "4", "7", "7", "5", "8", "0", "8", "n", "s", "\"">> }

\* JSON strings that hold no duration expression
MalformedStrings ==
    { <<"\"", "a", "b", "c", "\"">>,
      <<"\"", "n", "o", "t", "-", "a", "-", "d", "u", "r", "a", "t", "i", "o", "n", "\"">>,
      <<"\"", "\"">>,
      <<"\"", "5", "\"">>,
      <<"\"", "1", "x", "\"">>,
      <<"\"", "1", "h", "-", "5", "m", "\"">>,
      <<"\"", "5", " ", "m", "\"">> }

\* inputs that are neither a JSON integer nor a JSON string: garbage,
\* null, booleans, non-integer numbers, objects, arrays, invalid JSON
MalformedOthers ==
    { <<"a", "b", "c">>,
      <<"5", "m">>,
      <<"n", "u", "l", "l">>,
      <<"t", "r", "u", "e">>,
      <<"f", "a", "l", "s", "e">>,
      <<"1", ".", "5">>,
      <<"1", "e", "3">>,
      <<"{", "}">>,
      <<"[", "]">>,
      <<"{", "\"", "a", "\"", ":", "1", "}">>,
      <<"[", "3", "0", "0", "]">>,
      <<>>,
      <<"\"", "5", "m">>,
      <<"0", "1">>,
      <<"-">> }

Malformed == MalformedStrings \cup MalformedOthers

Inputs ==
    NonNegativeIntegers \cup NegativeIntegers \cup OtherIntegers
        \cup TooLargeIntegers \cup TooSmallIntegers
        \cup DurationStrings \cup NegativeDurationStrings
        \cup PaddedDurationStrings
        \cup OutOfRangeDurationStrings \cup Malformed

\* ------------------------------------------------------------- state

\* A pointer field: <<>> when unset, <<x>> when it points to x
Nil == <<>>

\* A *Duration field of a DecorationConfig
DurationPtr(neg, mag) == <<[Duration |-> Dur(neg, mag)]>>

TenSeconds == <<1, 0, 0, 0, 0, 0, 0, 0, 0, 0, 0>>

\* DecorationConfig values: all fields absent; a negative timeout; a zero
\* timeout and a zero grace period; a grace period equal to and above the
\* timeout; empty and ill-formed secret names and fingerprints
DecorationConfigs ==
    [Timeout : {Nil, DurationPtr(FALSE, <<>>), DurationPtr(TRUE, Second),
                DurationPtr(FALSE, TenSeconds)},
     GracePeriod : {Nil, DurationPtr(FALSE, <<>>),
                    DurationPtr(FALSE, TenSeconds), DurationPtr(FALSE, Hour)},
     GCSCredentialsSecret : {"", "Not/A Secret Name"},
     SSHKeySecrets : {<<>>, <<"", "ssh key">>},
     SSHHostFingerprints : {<<>>, <<"not a fingerprint">>},
     SkipCloning : {Nil, <<TRUE>>},
     CookiefileSecret : {""}]

VARIABLES
    d,      \* d.Duration of the Duration the codec is called on
    dc,     \* the DecorationConfig Validate is called on
    op,     \* the last call: "none", "UnmarshalJSON", "MarshalJSON", "Validate"
    arg,    \* the bytes given to the last call (UnmarshalJSON)
    old,    \* the receiver as it was before the last call
    err,    \* the error the last call returned
    ret     \* the bytes the last call returned (MarshalJSON)

vars == <<d, dc, op, arg, old, err, ret>>

\* A DecorationConfig with every field absent
ZeroConfig ==
    [Timeout |-> Nil, GracePeriod |-> Nil, GCSCredentialsSecret |-> "",
     SSHKeySecrets |-> <<>>, SSHHostFingerprints |-> <<>>,
     SkipCloning |-> Nil, CookiefileSecret |-> ""]

\* A zero Duration and a zero DecorationConfig
Init ==
    /\ d = ZeroDuration
    /\ dc = ZeroConfig
    /\ op = "none"
    /\ arg = <<>>
    /\ old = ZeroDuration
    /\ err = NoError
    /\ ret = <<>>

\* d.UnmarshalJSON(b)
UnmarshalJSON(b) ==
    \E r \in {DurationUnmarshalJSON(d, b)} :
        /\ d' = r.d
        /\ op' = "UnmarshalJSON"
        /\ arg' = b
        /\ old' = d
        /\ err' = r.err
        /\ ret' = <<>>
        /\ UNCHANGED dc

\* d.MarshalJSON()
MarshalJSON ==
    \E r \in {DurationMarshalJSON(d)} :
        /\ d' = r.d
        /\ op' = "MarshalJSON"
        /\ arg' = <<>>
        /\ old' = d
        /\ err' = r.err
        /\ ret' = r.b
        /\ UNCHANGED dc

\* dc.Validate()
Validate ==
    \E r \in {DecorationConfigValidate(dc)} :
        /\ dc' = r.dc
        /\ op' = "Validate"
        /\ arg' = <<>>
        /\ old' = dc
        /\ err' = r.err
        /\ ret' = <<>>
        /\ UNCHANGED d

\* The caller decodes a document's value, or what MarshalJSON just wrote
Next ==
    \/ \E b \in Inputs : UnmarshalJSON(b)
    \/ op = "MarshalJSON" /\ UnmarshalJSON(ret)
    \/ MarshalJSON
    \/ Validate

Spec == Init /\ [][Next]_vars

\* Validate on each of the DecorationConfigs
InitValidate ==
    /\ d = ZeroDuration
    /\ dc \in DecorationConfigs
    /\ op = "none"
    /\ arg = <<>>
    /\ old = ZeroDuration
    /\ err = NoError
    /\ ret = <<>>

NextValidate == Validate

SpecValidate == InitValidate /\ [][NextValidate]_vars

\* ---------------------------------------------------------- properties

\* What each well-formed input means: the input, and the number of
\* nanoseconds it stands for, worked out by hand from the unit-suffix
\* grammar (1h = 3600s, 1m = 60s, 1s = 10^9 ns)
MeaningTable ==
    { <<<<"0">>,
        Dur(FALSE, <<>>)>>,
      <<<<"1">>,
        Dur(FALSE, <<1>>)>>,
      <<<<"9", "9", "9">>,
        Dur(FALSE, <<9, 9, 9>>)>>,
      <<<<"1", "5", "0", "0">>,
        Dur(FALSE, <<1, 5, 0, 0>>)>>,
      <<<<"3", "0", "0", "0", "0", "0", "0", "0", "0">>,
        Dur(FALSE, <<3, 0, 0, 0, 0, 0, 0, 0, 0>>)>>,
      <<<<"1", "0", "0", "0", "0", "0", "0", "0", "0", "0">>,
        Dur(FALSE, <<1, 0, 0, 0, 0, 0, 0, 0, 0, 0>>)>>,
      <<<<"5", "4", "0", "0", "0", "0", "0", "0", "0", "0", "0", "0", "0">>,
        Dur(FALSE, <<5, 4, 0, 0, 0, 0, 0, 0, 0, 0, 0, 0, 0>>)>>,
      <<<<"9", "9", "0", "0", "0", "0", "0", "0", "0", "0", "0", "0", "0">>,
        Dur(FALSE, <<9, 9, 0, 0, 0, 0, 0, 0, 0, 0, 0, 0, 0>>)>>,
      <<<<"9", "2", "2", "3", "3", "7", "2", "0", "3", "6", "8", "5", "4", "7", "7", "5", "8", "0", "7">>,
        Dur(FALSE, <<9, 2, 2, 3, 3, 7, 2, 0, 3, 6, 8, 5, 4, 7, 7, 5, 8, 0, 7>>)>>,
      <<<<"-", "1">>,
        Dur(TRUE, <<1>>)>>,
      <<<<"-", "1", "5", "0", "0">>,
        Dur(TRUE, <<1, 5, 0, 0>>)>>,
      <<<<"-", "3", "0", "0", "0", "0", "0", "0", "0", "0", "0", "0", "0">>,
        Dur(TRUE, <<3, 0, 0, 0, 0, 0, 0, 0, 0, 0, 0, 0>>)>>,
      <<<<"-", "9", "2", "2", "3", "3", "7", "2", "0", "3", "6", "8", "5", "4", "7", "7", "5", "8", "0", "8">>,
        Dur(TRUE, <<9, 2, 2, 3, 3, 7, 2, 0, 3, 6, 8, 5, 4, 7, 7, 5, 8, 0, 8>>)>>,
      <<<<"9", "2", "2", "3", "3", "7", "2", "0", "3", "6", "8", "5", "4", "7", "7", "5", "8", "0", "8">>,
        Dur(FALSE, <<9, 2, 2, 3, 3, 7, 2, 0, 3, 6, 8, 5, 4, 7, 7, 5, 8, 0, 8>>)>>,
      <<<<"1", "8", "4", "4", "6", "7", "4", "4", "0", "7", "3", "7", "0", "9", "5", "5", "1", "6", "1", "6">>,
        Dur(FALSE, <<1, 8, 4, 4, 6, 7, 4, 4, 0, 7, 3, 7, 0, 9, 5, 5, 1, 6, 1, 6>>)>>,
      <<<<"9", "9", "9", "9", "9", "9", "9", "9", "9", "9", "9", "9", "9", "9", "9", "9", "9", "9", "9", "9">>,
        Dur(FALSE, <<9, 9, 9, 9, 9, 9, 9, 9, 9, 9, 9, 9, 9, 9, 9, 9, 9, 9, 9, 9>>)>>,
      <<<<"-", "0">>,
        Dur(FALSE, <<>>)>>,
      <<<<" ", "6", "0", "0", "0", "0", "0", "0", "0", "0", "0", "0", "\n">>,
        Dur(FALSE, <<6, 0, 0, 0, 0, 0, 0, 0, 0, 0, 0>>)>>,
      <<<<"\"", "0", "s", "\"">>,
        Dur(FALSE, <<>>)>>,
      <<<<"\"", "0", "\"">>,
        Dur(FALSE, <<>>)>>,
      <<<<"\"", "3", "0", "0", "m", "s", "\"">>,
        Dur(FALSE, <<3, 0, 0, 0, 0, 0, 0, 0, 0>>)>>,
      <<<<"\"", "1", "s", "\"">>,
        Dur(FALSE, <<1, 0, 0, 0, 0, 0, 0, 0, 0, 0>>)>>,
      <<<<"\"", "1", ".", "5", "h", "\"">>,
        Dur(FALSE, <<5, 4, 0, 0, 0, 0, 0, 0, 0, 0, 0, 0, 0>>)>>,
      <<<<"\"", "2", "h", "4", "5", "m", "\"">>,
        Dur(FALSE, <<9, 9, 0, 0, 0, 0, 0, 0, 0, 0, 0, 0, 0>>)>>,
      <<<<"\"", "1", "h", "3", "0", "m", "\"">>,
        Dur(FALSE, <<5, 4, 0, 0, 0, 0, 0, 0, 0, 0, 0, 0, 0>>)>>,
      <<<<"\"", ".", "5", "s", "\"">>,
        Dur(FALSE, <<5, 0, 0, 0, 0, 0, 0, 0, 0>>)>>,
      <<<<"\"", "+", "1", "m", "\"">>,
        Dur(FALSE, <<6, 0, 0, 0, 0, 0, 0, 0, 0, 0, 0>>)>>,
      <<<<"\"", "1", ".", "5", MicroSign, "s", "\"">>,
        Dur(FALSE, <<1, 5, 0, 0>>)>>,
      <<<<"\"", "1", ".", "5", "u", "s", "\"">>,
        Dur(FALSE, <<1, 5, 0, 0>>)>>,
      <<<<"\"", "2", "5", "6", "2", "0", "4", "7", "h", "4", "7", "m", "1", "6", ".", "8", "5", "4", "7", "7", "5", "8", "0", "7", "s", "\"">>,
        Dur(FALSE, <<9, 2, 2, 3, 3, 7, 2, 0, 3, 6, 8, 5, 4, 7, 7, 5, 8, 0, 7>>)>>,
      <<<<"\"", "-", "5", "m", "\"">>,
        Dur(TRUE, <<3, 0, 0, 0, 0, 0, 0, 0, 0, 0, 0, 0>>)>>,
      <<<<"\"", "-", "1", "n", "s", "\"">>,
        Dur(TRUE, <<1>>)>>,
      <<<<"\"", "-", "1", ".", "5", MicroSign, "s", "\"">>,
        Dur(TRUE, <<1, 5, 0, 0>>)>>,
      <<<<"\"", "-", "2", "5", "6", "2", "0", "4", "7", "h", "4", "7", "m", "1", "6", ".", "8", "5", "4", "7", "7", "5", "8", "0", "8", "s", "\"">>,
        Dur(TRUE, <<9, 2, 2, 3, 3, 7, 2, 0, 3, 6, 8, 5, 4, 7, 7, 5, 8, 0, 8>>)>>,
      <<<<"\"", "0", ".", "0", "0", "0", "0", "0", "0", "0", "0", "0", "0", "5", "0", "0", "0", "m", "\"">>,
        Dur(FALSE, <<3>>)>>,
      <<<<"\"", "1", "\\", "u", "0", "0", "b", "5", "s", "\"">>,
        Dur(FALSE, <<1, 0, 0, 0>>)>>,
      <<<<" ", "\"", "9", "0", "m", "\"">>,
        Dur(FALSE, <<5, 4, 0, 0, 0, 0, 0, 0, 0, 0, 0, 0, 0>>)>> }

MeaningOf(b) == (CHOOSE p \in MeaningTable : p[1] = b)[2]

\* The canonical string form of each duration, as a JSON string
CanonicalTable ==
    { <<Dur(TRUE, <<9, 2, 2, 3, 3, 7, 2, 0, 3, 6, 8, 5, 4, 7, 7, 5, 8, 0, 8>>),
        <<"\"", "-", "2", "5", "6", "2", "0", "4", "7", "h", "4", "7", "m", "1", "6", ".", "8", "5", "4", "7", "7", "5", "8", "0", "8", "s", "\"">>>>,
      <<Dur(TRUE, <<3, 0, 0, 0, 0, 0, 0, 0, 0, 0, 0, 0>>),
        <<"\"", "-", "5", "m", "0", "s", "\"">>>>,
      <<Dur(TRUE, <<1, 5, 0, 0>>),
        <<"\"", "-", "1", ".", "5", MicroSign, "s", "\"">>>>,
      <<Dur(TRUE, <<1>>),
        <<"\"", "-", "1", "n", "s", "\"">>>>,
      <<Dur(FALSE, <<>>),
        <<"\"", "0", "s", "\"">>>>,
      <<Dur(FALSE, <<1>>),
        <<"\"", "1", "n", "s", "\"">>>>,
      <<Dur(FALSE, <<2>>),
        <<"\"", "2", "n", "s", "\"">>>>,
      <<Dur(FALSE, <<3>>),
        <<"\"", "3", "n", "s", "\"">>>>,
      <<Dur(FALSE, <<9, 9, 9>>),
        <<"\"", "9", "9", "9", "n", "s", "\"">>>>,
      <<Dur(FALSE, <<1, 0, 0, 0>>),
        <<"\"", "1", MicroSign, "s", "\"">>>>,
      <<Dur(FALSE, <<1, 5, 0, 0>>),
        <<"\"", "1", ".", "5", MicroSign, "s", "\"">>>>,
      <<Dur(FALSE, <<3, 0, 0, 0, 0, 0, 0, 0, 0>>),
        <<"\"", "3", "0", "0", "m", "s", "\"">>>>,
      <<Dur(FALSE, <<5, 0, 0, 0, 0, 0, 0, 0, 0>>),
        <<"\"", "5", "0", "0", "m", "s", "\"">>>>,
      <<Dur(FALSE, <<1, 0, 0, 0, 0, 0, 0, 0, 0, 0>>),
        <<"\"", "1", "s", "\"">>>>,
      <<Dur(FALSE, <<6, 0, 0, 0, 0, 0, 0, 0, 0, 0, 0>>),
        <<"\"", "1", "m", "0", "s", "\"">>>>,
      <<Dur(FALSE, <<5, 4, 0, 0, 0, 0, 0, 0, 0, 0, 0, 0, 0>>),
        <<"\"", "1", "h", "3", "0", "m", "0", "s", "\"">>>>,
      <<Dur(FALSE, <<9, 9, 0, 0, 0, 0, 0, 0, 0, 0, 0, 0, 0>>),
        <<"\"", "2", "h", "4", "5", "m", "0", "s", "\"">>>>,
      <<Dur(FALSE, <<9, 2, 2, 3, 3, 7, 2, 0, 3, 6, 8, 5, 4, 7, 7, 5, 8, 0, 7>>),
        <<"\"", "2", "5", "6", "2", "0", "4", "7", "h", "4", "7", "m", "1", "6", ".", "8", "5", "4", "7", "7", "5", "8", "0", "7", "s", "\"">>>> }

Canonical(v) ==
    IF \E p \in CanonicalTable : p[1] = v
    THEN (CHOOSE p \in CanonicalTable : p[1] = v)[2]
    ELSE <<>>

\* The raw JSON integer of v nanoseconds
IntegerOf(v) ==
    (IF v.neg THEN <<"-">> ELSE <<>>)
        \o (IF v.mag = <<>> THEN <<"0">> ELSE ToChars(v.mag))

\* text occurs in the error message e
Contains(e, text) ==
    \E i \in 0..(Len(e) - Len(text)) : SubSeq(e, i + 1, i + Len(text)) = text

\* Receivers holding different previous values
Receivers == {ZeroDuration, Dur(FALSE, Second), Dur(TRUE, Minute)}

\* C1: UnmarshalJSON on an input that is neither a JSON integer nor a JSON
\* string holding a valid duration expression always returns an error.
\* The input null is decoded with success and leaves the Duration as it was.
MalformedInputFails ==
    op = "UnmarshalJSON" /\ arg \in Malformed => err # NoError

\* UnmarshalJSON of the raw integer n gives n nanoseconds, and MarshalJSON
\* of that Duration gives the canonical string of n nanoseconds, for the
\* integers of S
IntegerDecoded(S) ==
    /\ op' = "UnmarshalJSON" /\ arg' \in S
           => err' = NoError /\ d' = MeaningOf(arg')
    /\ op = "UnmarshalJSON" /\ arg \in S /\ op' = "MarshalJSON"
           => ret' = Canonical(MeaningOf(arg))

\* C2, as stated: for all non-negative integers n, the integers at and
\* beyond 1<<63 among them, UnmarshalJSON of n succeeds with n nanoseconds
\* and MarshalJSON gives the canonical string of n nanoseconds.
EveryIntegerDecoded ==
    [][IntegerDecoded(NonNegativeIntegers \cup TooLargeIntegers)]_vars

\* C2, for the integers an int64 holds: for all integers n with
\* 0 <= n <= 1<<63 - 1, UnmarshalJSON of n succeeds with n nanoseconds and
\* MarshalJSON of that Duration gives the canonical string of n nanoseconds.
Int64IntegerDecoded == [][IntegerDecoded(NonNegativeIntegers)]_vars

\* The integer 1<<63 - 1 decoded
MaxInt64Decoded ==
    /\ op = "UnmarshalJSON"
    /\ arg = ToChars(MaxInt64)
    /\ err = NoError
    /\ d = Dur(FALSE, MaxInt64)

\* C3: unmarshalling what MarshalJSON wrote for a parsed value succeeds and
\* gives the same value: parse(serialize(parse(x))) = parse(x).
RoundTrip ==
    [][op = "MarshalJSON" /\ op' = "UnmarshalJSON" /\ arg' = ret
           => err' = NoError /\ d' = d]_vars

\* "-5m" written as "-5m0s" and read again
RoundTripMinusFiveMinutes ==
    /\ op = "UnmarshalJSON"
    /\ arg = <<"\"", "-", "5", "m", "0", "s", "\"">>
    /\ old = Dur(TRUE, <<3, 0, 0, 0, 0, 0, 0, 0, 0, 0, 0, 0>>)
    /\ d = old
    /\ err = NoError

MarshalCanonical ==
    op = "MarshalJSON"
        => /\ err = NoError
           /\ ret = Canonical(old)
           /\ ret[1] = "\"" /\ ret[Len(ret)] = "\""

\* 90 minutes written as "1h30m0s"
NinetyMinutesMarshalled ==
    /\ op = "MarshalJSON"
    /\ old = Dur(FALSE, <<5, 4, 0, 0, 0, 0, 0, 0, 0, 0, 0, 0, 0>>)
    /\ ret = <<"\"", "1", "h", "3", "0", "m", "0", "s", "\"">>

\* C6: a valid duration string whose value is a whole number n of
\* nanoseconds is unmarshalled to the same Duration as the raw integer n.
\* "0.00000000005000m" is 3 nanoseconds and is unmarshalled to 2.
StringAsInteger ==
    op = "UnmarshalJSON"
        /\ arg \in DurationStrings \cup NegativeDurationStrings
                       \cup PaddedDurationStrings
        => /\ err = NoError
           /\ DurationUnmarshalJSON(old, IntegerOf(MeaningOf(arg))).err
                  = NoError
           /\ d = DurationUnmarshalJSON(old, IntegerOf(MeaningOf(arg))).d

ValidateAlwaysSucceeds ==
    op = "Validate" => err = NoError /\ dc = old

\* A config with a negative timeout, a grace period above it and an
\* ill-formed secret name validated
PoorConfigValidated ==
    /\ op = "Validate"
    /\ dc.Timeout = DurationPtr(TRUE, Second)
    /\ dc.GracePeriod = DurationPtr(FALSE, Hour)
    /\ dc.GCSCredentialsSecret = "Not/A Secret Name"
    /\ dc.SSHHostFingerprints = <<"not a fingerprint">>

\* C9: two calls of UnmarshalJSON on the same bytes, on receivers holding
\* different previous values, both succeed or both fail and on success give
\* the same Duration; MarshalJSON and Validate leave their receiver as it
\* was. The input null gives each receiver its previous value back.
ParseIsPure ==
    /\ op = "UnmarshalJSON"
           => \A p \in Receivers :
                  /\ (DurationUnmarshalJSON(p, arg).err = NoError)
                         = (err = NoError)
                  /\ err = NoError => DurationUnmarshalJSON(p, arg).d = d
    /\ op = "MarshalJSON" => d = old
    /\ op = "Validate" => dc = old

\* C10: a failed UnmarshalJSON leaves the receiver holding the value it
\* held before the call.
FailureKeepsReceiver ==
    op = "UnmarshalJSON" /\ err # NoError => d = old

\* A duration expression refused on a receiver that held a value
RefusedOverValue ==
    /\ op = "UnmarshalJSON"
    /\ arg \in MalformedStrings
    /\ err # NoError
    /\ old # ZeroDuration
    /\ d = old

====
